---- MODULE Spec2Model ----
(***************************************************************************)
(* Model of tools/checker_room_heights.py: check_room_heights(model,       *)
(* **kwargs), the room-height compliance check over the IfcSpace entities  *)
(* of an IFC model.                                                        *)
(*                                                                         *)
(* Representation.                                                         *)
(*  - A Python value is a tagged record [t, v]: t is "none", "num", "bool",*)
(*    "str" or "nested" (a dict held as a property value).                 *)
(*  - A Python string is a Text: a sequence of chunks.  A chunk is the     *)
(*    unit of substring search: `kw in s` holds when some chunk of s is kw.*)
(*    Keywords are therefore single chunks.                                *)
(*  - A property group (the dict get_psets returns for one pset) is a      *)
(*    sequence of [key, value] pairs with distinct keys, in the dict's     *)
(*    iteration order; psets is the sequence of groups in iteration order. *)
(*  - locals is the frame of the running call: a function from the names   *)
(*    of the local variables that are bound to their values.               *)
(***************************************************************************)
EXTENDS Integers, Sequences, FiniteSets, TLC

VARIABLES model, kwargs, pc, idx, locals, history

vars == <<model, kwargs, pc, idx, locals, history>>

(***************************************************************************)
(* Bounds of the explored inputs.                                          *)
(***************************************************************************)
MaxSpaces == 3
MaxPsets == 2
MaxProps == 3
MaxKwargs == 1
MaxCalls == 2

(***************************************************************************)
(* Python values.                                                          *)
(***************************************************************************)
None == [t |-> "none", v |-> 0]
Num(n) == [t |-> "num", v |-> n]
Bool(b) == [t |-> "bool", v |-> b]
Str(s) == [t |-> "str", v |-> s]
Nested(props) == [t |-> "nested", v |-> props]
Prop(k, val) == [key |-> k, value |-> val]

\* bool(x) as used by `x or y` and `if x:`
Truthy(val) ==
    CASE val.t = "none" -> FALSE
      [] val.t = "num" -> val.v # 0
      [] val.t = "bool" -> val.v
      [] val.t = "str" -> val.v # <<>>
      [] val.t = "nested" -> val.v # <<>>

\* isinstance(x, (int, float)): bool is a subclass of int
IsNumber(val) == val.t \in {"num", "bool"}

\* the number a numeric value compares and formats as (True is 1, False is 0)
NumOf(val) == IF val.t = "bool" THEN (IF val.v THEN 1 ELSE 0) ELSE val.v

\* str.lower() of one chunk
LowerChunk(c) ==
    CASE c = "Height" -> "height"
      [] c = "HEIGHT" -> "height"
      [] c = "Clear" -> "clear"
      [] c = "Dwelling" -> "dwelling"
      [] c = "Residential" -> "residential"
      [] c = "Type" -> "type"
      [] c = "Usage" -> "usage"
      [] c = "Dims" -> "dims"
      [] c = "Checked" -> "checked"
      [] c = "Office" -> "office"
      [] c = "Bedroom" -> "bedroom"
      [] c = "FAMILY" -> "family"
      [] c = "Apartment" -> "apartment"
      [] c = "Space #" -> "space #"
      [] c = "True" -> "true"
      [] c = "False" -> "false"
      [] c = "None" -> "none"
      [] OTHER -> c

\* str.lower()
Lower(s) == [i \in DOMAIN s |-> LowerChunk(s[i])]

\* kw in s
Contains(s, kw) == \E i \in DOMAIN s : s[i] = kw

RECURSIVE PyRepr(_)
RECURSIVE ItemsRepr(_, _)
\* repr(x), which str(dict) applies to the dict's keys and values
PyRepr(val) ==
    CASE val.t = "none" -> <<"None">>
      [] val.t = "num" -> <<ToString(val.v)>>
      [] val.t = "bool" -> IF val.v THEN <<"True">> ELSE <<"False">>
      [] val.t = "str" -> <<"'">> \o val.v \o <<"'">>
      [] val.t = "nested" -> <<"{">> \o ItemsRepr(val.v, 1) \o <<"}">>

ItemsRepr(props, j) ==
    IF j > Len(props) THEN <<>>
    ELSE (IF j > 1 THEN <<", ">> ELSE <<>>)
         \o <<"'">> \o props[j].key \o <<"'", ": ">>
         \o PyRepr(props[j].value)
         \o ItemsRepr(props, j + 1)

\* str(properties) for a property group
DictStr(props) == <<"{">> \o ItemsRepr(props, 1) \o <<"}">>

\* f"{x}": str(x)
PyStr(val) == IF val.t = "str" THEN val.v ELSE PyRepr(val)

\* f"{x:.0f}" for a numeric x
Fmt0f(val) == <<ToString(NumOf(val))>>

\* the code minimums, in millimetres
ResidentialDefault == 2700
CommercialDefault == 2800
SlopedDefault == 2100

\* kwargs.get(key, default)
KwargsGet(kw, key, default) == IF key \in DOMAIN kw THEN kw[key] ELSE default

\* model.by_type(kind)
by_type(m, kind) == m[kind]

\* ifcopenshell.util.element.get_psets(space)
get_psets(space) == space.psets

(***************************************************************************)
(* The empty-model record.                                                 *)
(***************************************************************************)
NoSpacesRecord ==
    [element_id |-> None,
     element_type |-> "Summary",
     element_name |-> <<"Room Heights Check">>,
     element_name_long |-> None,
     check_status |-> "log",
     actual_value |-> <<"0 spaces found">>,
     required_value |-> <<">= 1 space">>,
     comment |-> Str(<<"No IfcSpace elements found in model">>),
     log |-> None]

(***************************************************************************)
(* The storey elevation map: storey id -> elevation, for the storeys whose *)
(* Elevation is not None.                                                  *)
(***************************************************************************)
StoreyElevations(storeys) ==
    LET withElev == {k \in DOMAIN storeys : storeys[k].Elevation # None}
    IN  [sid \in {storeys[k].id : k \in withElev} |->
            storeys[CHOOSE k \in withElev : storeys[k].id = sid
                /\ \A k2 \in withElev : storeys[k2].id = sid => k2 <= k].Elevation]

(***************************************************************************)
(* Height discovery.                                                       *)
(***************************************************************************)
NoMatch == [t |-> "nomatch", v |-> 0]

RECURSIVE FirstNumericHeight(_, _)
\* the inner loop over properties.items(): the value of the first property
\* from position j on whose key contains "height" and whose value is an
\* int or float, or NoMatch when the loop ends without assigning
FirstNumericHeight(properties, j) ==
    IF j > Len(properties) THEN NoMatch
    ELSE IF Contains(Lower(properties[j].key), "height")
            /\ IsNumber(properties[j].value)
         THEN properties[j].value
         ELSE FirstNumericHeight(properties, j + 1)

RECURSIVE ScanPsets(_, _, _, _)
\* the outer loop over psets.items() from group k on, with the current
\* height_value and height_found_in_properties; the inner break leaves
\* only the inner loop, so the outer loop visits every group
ScanPsets(psets, k, height_value, found) ==
    IF k > Len(psets)
    THEN [height_value |-> height_value, height_found_in_properties |-> found]
    ELSE IF Contains(Lower(DictStr(psets[k])), "height")
         THEN LET h == FirstNumericHeight(psets[k], 1)
              IN  ScanPsets(psets, k + 1,
                            IF h = NoMatch THEN height_value ELSE h, TRUE)
         ELSE ScanPsets(psets, k + 1, height_value, found)

(***************************************************************************)
(* Use-type classification.                                                *)
(***************************************************************************)
PsetKeywordsNoDwelling == {"residential"}
PsetKeywords == {"residential", "dwelling"}

NameTerms == <<"residential", "dwelling", "apartment", "bedroom", "family">>

RECURSIVE PsetsSayResidential(_, _)
\* the loop over psets.items() that sets is_residential and breaks
PsetsSayResidential(psets, k) ==
    IF k > Len(psets) THEN FALSE
    ELSE LET props_str == Lower(DictStr(psets[k]))
         IN  IF \E kw \in PsetKeywords : Contains(props_str, kw)
             THEN TRUE
             ELSE PsetsSayResidential(psets, k + 1)

\* any(term in name_lower for term in [...])
NameSaysResidential(space_name) ==
    LET name_lower == Lower(space_name)
    IN  \E n \in DOMAIN NameTerms : Contains(name_lower, NameTerms[n])

\* getattr(space, "Name", None) or f"Space #{space.id()}"
SpaceName(space) ==
    IF Truthy(space.Name) THEN space.Name.v
    ELSE <<"Space #", ToString(space.id)>>

\* is_residential after both classification steps
IsResidential(psets, space_name) ==
    LET by_psets == IF psets # <<>> THEN PsetsSayResidential(psets, 1) ELSE FALSE
    IN  IF ~by_psets /\ space_name # <<>>
        THEN NameSaysResidential(space_name)
        ELSE by_psets

(***************************************************************************)
(* Threshold comparison.                                                   *)
(***************************************************************************)
\* height_value >= required_height raises TypeError unless required_height
\* is a number (height_value always is one)
Comparable(height_value, required_height) == IsNumber(required_height)

CheckStatusStrict(height_value, required_height) ==
    IF NumOf(height_value) > NumOf(required_height) THEN "pass" ELSE "fail"

CheckStatus(height_value, required_height) ==
    IF NumOf(height_value) >= NumOf(required_height) THEN "pass" ELSE "fail"

\* the record of one space
SpaceRecord(space, height_value, required_height, use_type) ==
    LET check_status == IF height_value # None
                        THEN CheckStatus(height_value, required_height)
                        ELSE "warning"
    IN  [element_id |-> space.GlobalId,
         element_type |-> "IfcSpace",
         element_name |-> SpaceName(space),
         element_name_long |-> space.LongName,
         check_status |-> check_status,
         actual_value |->
            IF height_value # None
            THEN Fmt0f(height_value) \o <<"mm">>
            ELSE <<"Height not specified">>,
         required_value |->
            <<">= ">> \o PyStr(required_height) \o <<"mm (", use_type, ")">>,
         comment |->
            IF height_value # None
            THEN IF check_status = "fail"
                 THEN Str(<<"Space height ">> \o Fmt0f(height_value)
                          \o <<"mm is below required minimum ">>
                          \o PyStr(required_height)
                          \o <<"mm for ", use_type>>)
                 ELSE None
            ELSE Str(<<"No explicit height property found for space. Cannot verify compliance.">>),
         log |-> Str(<<"use_type=", use_type, ", properties_checked=True">>)]

(***************************************************************************)
(* The summary record.                                                     *)
(***************************************************************************)
SummaryStatusLenient(failed_count) == IF failed_count <= 1 THEN "pass" ELSE "fail"

SummaryStatus(failed_count) == IF failed_count = 0 THEN "pass" ELSE "fail"

CountsTextSwapped(passed_count, failed_count, warning_count) ==
    <<ToString(passed_count), " pass, ", ToString(warning_count), " fail, ",
      ToString(failed_count), " warning">>

\* f"{passed_count} pass, {failed_count} fail, {warning_count} warning"
CountsText(passed_count, failed_count, warning_count) ==
    <<ToString(passed_count), " pass, ", ToString(failed_count), " fail, ",
      ToString(warning_count), " warning">>

SummaryRecord(total_spaces, passed_count, failed_count, warning_count) ==
    [element_id |-> None,
     element_type |-> "Summary",
     element_name |-> <<"Room Heights Check Summary">>,
     element_name_long |-> None,
     check_status |-> SummaryStatus(failed_count),
     actual_value |-> CountsText(passed_count, failed_count, warning_count),
     required_value |->
        <<"All ", ToString(total_spaces), " spaces meet minimum height requirements">>,
     comment |->
        Str(<<"Checked ", ToString(total_spaces), " space(s): ",
              ToString(passed_count), " compliant, ",
              ToString(failed_count), " non-compliant, ",
              ToString(warning_count), " with missing data">>),
     log |-> None]

(***************************************************************************)
(* The explored inputs.                                                    *)
(***************************************************************************)
\* the sequences over S of length at most n
SeqsUpTo(S, n) == UNION {[1..m -> S] : m \in 0..n}

Injective(f) == \A a, b \in DOMAIN f : f[a] = f[b] => a = b

\* the properties the generated property groups are built from
Props ==
    {Prop(<<"Height">>, Num(2650)),
     Prop(<<"Clear", "Height">>, Num(2850)),
     Prop(<<"HEIGHT">>, Str(<<"tall">>)),
     Prop(<<"Height", "Checked">>, Bool(TRUE)),
     Prop(<<"Dwelling", "Type">>, Str(<<"flat">>)),
     Prop(<<"Dims">>, Nested(<<Prop(<<"Height">>, Num(2750))>>))}

\* the property sequences a space's groups are cut from: each property once
PropLists == {f \in SeqsUpTo(Props, MaxProps) : Injective(f)}

\* the ways to cut a list of len properties into n consecutive groups, as
\* the position of the last property of each group (a group may be empty)
CutLists(len, n) ==
    {c \in [1..n -> 0..len] :
        /\ n > 0 => c[n] = len
        /\ \A k \in 1..(n - 1) : c[k] <= c[k + 1]}

Split(f, c) ==
    [k \in DOMAIN c |-> SubSeq(f, (IF k = 1 THEN 0 ELSE c[k - 1]) + 1, c[k])]

\* the space with the given psets
GeneratedSpace(psets) ==
    [id |-> 7, GlobalId |-> Str(<<"g7">>), Name |-> Str(<<"Office">>),
     LongName |-> None, psets |-> psets]

\* the spaces the models of several spaces are built from
ListedSpaces ==
    {[id |-> 1, GlobalId |-> Str(<<"g1">>), Name |-> Str(<<>>),
      LongName |-> Str(<<"Open office">>),
      psets |-> <<<<Prop(<<"Height">>, Num(2750))>>>>],
     [id |-> 2, GlobalId |-> None, Name |-> Str(<<"FAMILY", " room">>),
      LongName |-> None,
      psets |-> <<<<Prop(<<"Area">>, Num(12)), Prop(<<"Height">>, Num(2750))>>>>],
     [id |-> 3, GlobalId |-> Str(<<"g3">>), Name |-> Str(<<"Bedroom", " 2">>),
      LongName |-> None,
      psets |-> <<<<Prop(<<"Dwelling", "Type">>, Str(<<"flat">>))>>>>],
     [id |-> 4, GlobalId |-> Str(<<"g4">>), Name |-> None, LongName |-> None,
      psets |-> <<<<Prop(<<"Usage">>, Str(<<"Residential">>))>>,
                  <<Prop(<<"HEIGHT">>, Str(<<"tall">>))>>>>]}

Storeys ==
    <<[id |-> 20, Elevation |-> Num(0)], [id |-> 21, Elevation |-> None],
      [id |-> 22, Elevation |-> Num(3000)]>>

ListedModels ==
    {[IfcSpace |-> sp, IfcBuildingStorey |-> Storeys] :
        sp \in {q \in SeqsUpTo(ListedSpaces, MaxSpaces) : Injective(q)}}

\* the model of one space with the given psets
GeneratedModel(psets) ==
    [IfcSpace |-> <<GeneratedSpace(psets)>>, IfcBuildingStorey |-> <<>>]

OptionKeys ==
    {"residential_min_height", "commercial_min_height", "sloped_min_height",
     "verbose"}

OptionValues == {Num(2750), Str(<<"high">>)}

NoKwargs == [k \in {} |-> None]

KwargsSets ==
    UNION {[K -> OptionValues] :
             K \in {L \in SUBSET OptionKeys : Cardinality(L) <= MaxKwargs}}

(***************************************************************************)
(* The state machine: one or more calls of check_room_heights(model,       *)
(* **kwargs) on the same model with the same options.  pc is the position  *)
(* of the running call, idx the position of the loop over spaces, history  *)
(* the outcomes of the calls that have ended.  The model is either a list  *)
(* of at most MaxSpaces of the listed spaces, called with at most          *)
(* MaxKwargs options, or one space whose psets is any list of at most      *)
(* MaxProps properties cut into at most MaxPsets groups, called with no    *)
(* options.                                                                *)
(***************************************************************************)
Init ==
    /\ \/ model \in ListedModels /\ kwargs \in KwargsSets
       \/ \E f \in PropLists, n \in 0..MaxPsets :
            \E c \in CutLists(Len(f), n) :
               /\ model = GeneratedModel(Split(f, c))
               /\ kwargs = NoKwargs
    /\ pc = "idle"
    /\ idx = 0
    /\ locals = [results |-> <<>>]
    /\ history = <<>>

NeverEmpty(spaces) == FALSE

\* not spaces
NoSpaces(spaces) == spaces = <<>>

PrependSpaceResult(results, result_dict) == <<result_dict>> \o results

\* results.append(result_dict)
AppendSpaceResult(results, result_dict) == Append(results, result_dict)

StaleList == IF "results" \in DOMAIN locals THEN locals.results ELSE <<>>

\* results = []
EmptyList == <<>>

\* entry: results, the three thresholds, the selected spaces
Call ==
    /\ pc \in {"idle", "done", "raised"}
    /\ Len(history) < MaxCalls
    /\ pc' = "called"
    /\ idx' = 0
    /\ locals' =
         [results |-> EmptyList,
          RESIDENTIAL_MIN_HEIGHT |->
             KwargsGet(kwargs, "residential_min_height", Num(ResidentialDefault)),
          COMMERCIAL_MIN_HEIGHT |->
             KwargsGet(kwargs, "commercial_min_height", Num(CommercialDefault)),
          SLOPED_CEILING_MIN_HEIGHT |->
             KwargsGet(kwargs, "sloped_min_height", Num(SlopedDefault)),
          spaces |-> by_type(model, "IfcSpace")]
    /\ UNCHANGED <<model, kwargs, history>>

\* if not spaces: append the placeholder and return
ReturnNoSpaces ==
    /\ pc = "called"
    /\ NoSpaces(locals.spaces)
    /\ locals' = [locals EXCEPT !.results = Append(@, NoSpacesRecord)]
    /\ pc' = "done"
    /\ history' = Append(history, [outcome |-> "return", value |-> locals'.results])
    /\ UNCHANGED <<model, kwargs, idx>>

\* the storey elevation map and the three counters
IndexStoreys ==
    /\ pc = "called"
    /\ ~NoSpaces(locals.spaces)
    /\ LET storeys == by_type(model, "IfcBuildingStorey")
       IN  locals' = [storey_elevations |-> StoreyElevations(storeys),
                      storeys |-> storeys,
                      passed_count |-> 0,
                      failed_count |-> 0,
                      warning_count |-> 0] @@ locals
    /\ pc' = "loop"
    /\ idx' = 1
    /\ UNCHANGED <<model, kwargs, history>>

\* what one iteration of the loop over spaces binds before the comparison
SpaceLocals(space) ==
    LET psets == get_psets(space)
        scan == ScanPsets(psets, 1, None, FALSE)
        is_residential == IsResidential(psets, SpaceName(space))
    IN  [space |-> space,
         height_value |-> scan.height_value,
         height_found_in_properties |-> scan.height_found_in_properties,
         is_residential |-> is_residential,
         use_type |-> IF is_residential THEN "Residential" ELSE "Commercial",
         required_height |-> IF is_residential
                             THEN locals.RESIDENTIAL_MIN_HEIGHT
                             ELSE locals.COMMERCIAL_MIN_HEIGHT]

\* one iteration of the loop over spaces that appends the space's record
CheckSpace ==
    /\ pc = "loop"
    /\ idx <= Len(locals.spaces)
    /\ \E sl \in {SpaceLocals(locals.spaces[idx])} :
         /\ sl.height_value # None
              => Comparable(sl.height_value, sl.required_height)
         /\ \E rec \in {SpaceRecord(sl.space, sl.height_value,
                                    sl.required_height, sl.use_type)} :
              locals' =
                [results |-> AppendSpaceResult(locals.results, rec),
                 check_status |-> rec.check_status,
                 passed_count |-> locals.passed_count
                    + (IF rec.check_status = "pass" THEN 1 ELSE 0),
                 failed_count |-> locals.failed_count
                    + (IF rec.check_status = "fail" THEN 1 ELSE 0),
                 warning_count |-> locals.warning_count
                    + (IF rec.check_status = "warning" THEN 1 ELSE 0)]
                @@ sl @@ locals
    /\ idx' = idx + 1
    /\ UNCHANGED <<model, kwargs, pc, history>>

\* one iteration of the loop over spaces whose comparison raises TypeError:
\* the call ends without a result
CheckSpaceRaises ==
    /\ pc = "loop"
    /\ idx <= Len(locals.spaces)
    /\ \E sl \in {SpaceLocals(locals.spaces[idx])} :
         /\ sl.height_value # None
         /\ ~Comparable(sl.height_value, sl.required_height)
         /\ locals' = sl @@ locals
    /\ pc' = "raised"
    /\ history' = Append(history, [outcome |-> "raise", value |-> <<>>])
    /\ UNCHANGED <<model, kwargs, idx>>

\* after the loop: append the summary record and return
Summarize ==
    /\ pc = "loop"
    /\ idx > Len(locals.spaces)
    /\ LET total_spaces == Len(locals.spaces)
           rec == SummaryRecord(total_spaces, locals.passed_count,
                                locals.failed_count, locals.warning_count)
       IN  locals' = [results |-> Append(locals.results, rec),
                      total_spaces |-> total_spaces,
                      summary_status |-> rec.check_status] @@ locals
    /\ pc' = "done"
    /\ history' = Append(history, [outcome |-> "return", value |-> locals'.results])
    /\ UNCHANGED <<model, kwargs, idx>>

Next ==
    \/ Call
    \/ ReturnNoSpaces
    \/ IndexStoreys
    \/ CheckSpace
    \/ CheckSpaceRaises
    \/ Summarize

Spec == Init /\ [][Next]_vars

(***************************************************************************)
(* Properties.                                                             *)
(***************************************************************************)
\* the number of spaces of the model
NSpaces == Len(model.IfcSpace)

\* the number of the first n records that carry the status
CountStatus(results, n, status) ==
    Cardinality({i \in 1..n : results[i].check_status = status})

\* C1: a call that returns on a model with N >= 1 spaces returns N + 1
\* records; record i carries the identifier, display name and long name of
\* the i-th selected space and the element kind IfcSpace; the last record,
\* and only the last, is tagged Summary.
C1_Cardinality ==
    (pc = "done" /\ NSpaces >= 1) =>
        LET results == locals.results
        IN  /\ Len(results) = NSpaces + 1
            /\ \A i \in 1..NSpaces :
                 LET space == model.IfcSpace[i]
                 IN  /\ results[i].element_type = "IfcSpace"
                     /\ results[i].element_id = space.GlobalId
                     /\ results[i].element_name_long = space.LongName
                     /\ results[i].element_name =
                          IF space.Name.t = "str" /\ space.Name.v # <<>>
                          THEN space.Name.v
                          ELSE <<"Space #", ToString(space.id)>>
            /\ \A i \in 1..Len(results) :
                 results[i].element_type = "Summary" <=> i = NSpaces + 1

C1_Witness ==
    /\ pc = "done"
    /\ NSpaces >= 2
    /\ Len(locals.results) = NSpaces + 1
    /\ locals.results[1].element_name # locals.results[2].element_name
    /\ locals.results[NSpaces + 1].element_type = "Summary"

\* C2: a call on a model with no spaces returns one record, a Summary with
\* status log, actual value "0 spaces found" and required value
\* ">= 1 space", and binds neither the storey map nor any counter.
C2_EmptyModel ==
    (pc = "done" /\ NSpaces = 0) =>
        /\ Len(locals.results) = 1
        /\ locals.results[1].element_type = "Summary"
        /\ locals.results[1].check_status = "log"
        /\ locals.results[1].actual_value = <<"0 spaces found">>
        /\ locals.results[1].required_value = <<">= 1 space">>
        /\ DOMAIN locals \cap {"storeys", "storey_elevations", "passed_count",
                               "failed_count", "warning_count",
                               "summary_status"} = {}
        /\ history[Len(history)] = [outcome |-> "return", value |-> locals.results]

C2_Witness ==
    /\ pc = "done"
    /\ NSpaces = 0
    /\ model.IfcBuildingStorey # <<>>
    /\ Len(locals.results) = 1
    /\ "storey_elevations" \notin DOMAIN locals

\* C3: while the spaces are processed the three counters add up to the
\* number of spaces processed and each equals the number of records with
\* its status; on return they add up to N and the Summary's actual value
\* is "P pass, F fail, W warning" for exactly these counts.
C3_Counters ==
    (pc \in {"loop", "done"} /\ NSpaces >= 1) =>
        LET results == locals.results
            n == idx - 1
            P == CountStatus(results, n, "pass")
            F == CountStatus(results, n, "fail")
            W == CountStatus(results, n, "warning")
        IN  /\ locals.passed_count = P
            /\ locals.failed_count = F
            /\ locals.warning_count = W
            /\ P + F + W = n
            /\ pc = "done" =>
                 /\ n = NSpaces
                 /\ results[n + 1].actual_value =
                      <<ToString(P), " pass, ", ToString(F), " fail, ",
                        ToString(W), " warning">>

C3_Witness ==
    /\ pc = "done"
    /\ NSpaces >= 3
    /\ locals.passed_count >= 1
    /\ locals.failed_count >= 1
    /\ locals.warning_count >= 1
    /\ locals.passed_count # locals.failed_count \/ NSpaces = 3

\* C4: on return from a model with at least one space the Summary's status
\* is fail when some space record has status fail and pass otherwise.
C4_SummaryStatus ==
    (pc = "done" /\ NSpaces >= 1) =>
        LET results == locals.results
            summary == results[Len(results)]
        IN  /\ summary.check_status \in {"pass", "fail"}
            /\ summary.check_status = "fail"
                 <=> \E i \in 1..NSpaces : results[i].check_status = "fail"

C4_Witness ==
    /\ pc = "done"
    /\ NSpaces >= 2
    /\ \A i \in 1..NSpaces : locals.results[i].check_status = "warning"
    /\ locals.results[NSpaces + 1].check_status = "pass"

\* C5: the record appended for a space has status pass when a height was
\* discovered and it is at least the threshold of the space's use type,
\* fail when a height was discovered and it is below that threshold, and
\* warning when no height was discovered; no space record has status log.
C5_ThresholdApplied ==
    (pc \in {"loop", "done"} /\ idx > 1) =>
        LET record == locals.results[idx - 1]
            H == locals.height_value
            threshold == IF locals.use_type = "Residential"
                         THEN locals.RESIDENTIAL_MIN_HEIGHT
                         ELSE locals.COMMERCIAL_MIN_HEIGHT
        IN  /\ locals.use_type \in {"Residential", "Commercial"}
            /\ H # None =>
                 /\ record.check_status \in {"pass", "fail"}
                 /\ record.check_status = "pass"
                      <=> NumOf(H) >= NumOf(threshold)
            /\ H = None => record.check_status = "warning"
            /\ \A i \in 1..(idx - 1) : locals.results[i].check_status # "log"

C5_Witness ==
    /\ pc = "loop"
    /\ idx > 1
    /\ locals.height_value # None
    /\ locals.use_type = "Residential"
    /\ locals.required_height = Num(2750)
    /\ NumOf(locals.height_value) = 2750
    /\ locals.results[idx - 1].check_status = "pass"

\* the space's property groups mention residential or dwelling
PropertySignal(space) ==
    \E k \in DOMAIN space.psets :
        \/ Contains(Lower(DictStr(space.psets[k])), "residential")
        \/ Contains(Lower(DictStr(space.psets[k])), "dwelling")

\* the space's display name contains one of the five terms
NameSignal(space) ==
    LET name == IF space.Name.t = "str" /\ space.Name.v # <<>>
                THEN space.Name.v
                ELSE <<"Space #", ToString(space.id)>>
    IN  \E term \in {"residential", "dwelling", "apartment", "bedroom", "family"} :
            Contains(Lower(name), term)

\* C6: a space is classified Residential exactly when its property groups
\* mention residential or dwelling, whatever its name, or its display name
\* contains one of residential, dwelling, apartment, bedroom, family; it is
\* Commercial otherwise, and its record logs that use type.
C6_Classification ==
    ("space" \in DOMAIN locals) =>
        LET space == locals.space
        IN  /\ PropertySignal(space) => locals.is_residential
            /\ locals.is_residential <=> (PropertySignal(space) \/ NameSignal(space))
            /\ locals.use_type =
                 IF PropertySignal(space) \/ NameSignal(space)
                 THEN "Residential" ELSE "Commercial"
            /\ (pc \in {"loop", "done"}) =>
                 locals.results[idx - 1].log =
                    Str(<<"use_type=", locals.use_type, ", properties_checked=True">>)

C6_Witness ==
    /\ pc = "loop"
    /\ "space" \in DOMAIN locals
    /\ locals.space.Name = Str(<<"Office">>)
    /\ ~NameSignal(locals.space)
    /\ \E k \in DOMAIN locals.space.psets :
         Contains(Lower(DictStr(locals.space.psets[k])), "dwelling")
    /\ locals.is_residential
    /\ locals.use_type = "Residential"

\* the threshold the options give under the key, by the stated rule
StatedThreshold(key, default) ==
    IF key \in DOMAIN kwargs /\ kwargs[key].t = "num"
    THEN kwargs[key]
    ELSE Num(default)

\* C7: each threshold is its default when its option key is absent or the
\* override is not a number, and the override when it is a number; other
\* option keys change nothing.
C7_ThresholdDefaults ==
    (pc # "idle") =>
        /\ locals.RESIDENTIAL_MIN_HEIGHT =
             StatedThreshold("residential_min_height", ResidentialDefault)
        /\ locals.COMMERCIAL_MIN_HEIGHT =
             StatedThreshold("commercial_min_height", CommercialDefault)
        /\ locals.SLOPED_CEILING_MIN_HEIGHT =
             StatedThreshold("sloped_min_height", SlopedDefault)

\* C8: no step of a call changes the model, and every call on the model
\* with the same options ends with the same outcome as the first.
C8_Idempotent ==
    [][/\ model' = model
       /\ \A c \in DOMAIN history' : history'[c] = history'[1]]_vars

C8_Witness ==
    /\ Len(history) = 2
    /\ history[1].outcome = "return"
    /\ Len(history[1].value) >= 3
    /\ pc = "done"

\* the positions of the numeric "height" properties of a property group
HeightPositions(properties) ==
    {j \in DOMAIN properties :
        /\ Contains(Lower(properties[j].key), "height")
        /\ IsNumber(properties[j].value)}

Min(S) == CHOOSE m \in S : \A o \in S : m <= o

\* the height of the first numeric "height" property of the earliest
\* property group that has one
EarliestHeight(psets) ==
    LET groups == {k \in DOMAIN psets : HeightPositions(psets[k]) # {}}
    IN  IF groups = {} THEN None
        ELSE psets[Min(groups)][Min(HeightPositions(psets[Min(groups)]))].value

\* C9: the discovered height of a space is the value of the first numeric
\* "height" property of the earliest property group that has one; a later
\* group does not replace it.
C9_FirstGroupWins ==
    ("space" \in DOMAIN locals) =>
        locals.height_value = EarliestHeight(locals.space.psets)

\* C10: the discovered height is never a boolean, a string or a nested
\* value, and a space without a "height" property holding a number has no
\* height and gets status warning.
C10_OnlyNumbers ==
    ("space" \in DOMAIN locals) =>
        /\ locals.height_value.t \in {"none", "num"}
        /\ (\A k \in DOMAIN locals.space.psets :
              \A j \in DOMAIN locals.space.psets[k] :
                 LET property == locals.space.psets[k][j]
                 IN  ~(Contains(Lower(property.key), "height")
                       /\ property.value.t = "num"))
             => /\ locals.height_value = None
                /\ pc \in {"loop", "done"}
                /\ locals.results[idx - 1].check_status = "warning"

====
